---- MODULE Spec2Model ----
(***************************************************************************)
(* A model of address_book.py: the validated fields (Name, Phone,          *)
(* Birthday), Record, AddressBook with get_upcoming_birthdays, the command *)
(* handlers behind input_error, the snapshot (save_data / load_data) and   *)
(* the read-eval-print loop of main.                                       *)
(*                                                                         *)
(* Python strings are sequences of one-character strings, so that split,   *)
(* lower, isdigit, strptime and strftime are computed character by         *)
(* character.  A date is <<year, month, day>>;  None is <<>>.              *)
(***************************************************************************)
EXTENDS Integers, Sequences, FiniteSets, TLC

VARIABLES
    pc,          \* where main is: "boot", "loop", "done" (returned), "crashed"
    contacts,    \* the AddressBook: its records in key (insertion) order
    file,        \* addressbook.pkl: [exists, bytes]
    call,        \* the last call made: [fn, args]
    output,      \* what the last call returned / main printed: [tag, val]
    failure,     \* why the last call failed: the kind of the raise site
    before,      \* the AddressBook before the last call
    today,       \* datetime.today().date() as the last query read it
    session,     \* number of runs of main started so far
    started,     \* the AddressBook the current run of main loaded
    prevEnd,     \* the AddressBook the previous run of main held when it ended
    cmds         \* commands dispatched so far, over all runs of main

vars == <<pc, contacts, file, call, output, failure, before, today, session,
          started, prevEnd, cmds>>

None == <<>>

(***************************************************************************)
(* Bounds of the model.                                                    *)
(***************************************************************************)
MaxPhones == 2      \* longest phone list a Record may grow to
MaxCmds == 3        \* commands dispatched, over all runs of main
MaxSessions == 2    \* runs of main
MaxAhead == 9       \* birthdays up to this many days after the first today
MaxTodays == 2      \* consecutive values of today tried from each start date

(***************************************************************************)
(* Characters and strings.                                                 *)
(***************************************************************************)
Digits == <<"0", "1", "2", "3", "4", "5", "6", "7", "8", "9">>

Upper == <<"A", "B", "C", "D", "E", "F", "G", "H", "I", "J", "K", "L", "M",
           "N", "O", "P", "Q", "R", "S", "T", "U", "V", "W", "X", "Y", "Z">>

Lower == <<"a", "b", "c", "d", "e", "f", "g", "h", "i", "j", "k", "l", "m",
           "n", "o", "p", "q", "r", "s", "t", "u", "v", "w", "x", "y", "z">>

Whitespace == {" ", "\t"}

IsDigitChar(c) == \E i \in 1..10 : Digits[i] = c

DigitValue(c) == (CHOOSE i \in 1..10 : Digits[i] = c) - 1

\* str.isdigit: non-empty and every character a digit
isdigit(s) == Len(s) > 0 /\ \A i \in 1..Len(s) : IsDigitChar(s[i])

\* int(s) for a string of digits
RECURSIVE IntOf(_)
IntOf(s) ==
    IF s = <<>> THEN 0
    ELSE 10 * IntOf(SubSeq(s, 1, Len(s) - 1)) + DigitValue(s[Len(s)])

LowerChar(c) ==
    IF \E i \in 1..26 : Upper[i] = c
    THEN Lower[CHOOSE i \in 1..26 : Upper[i] = c]
    ELSE c

\* str.lower
lower(s) == [i \in 1..Len(s) |-> LowerChar(s[i])]

\* str.split(): the maximal runs of non-whitespace characters
RECURSIVE SplitFrom(_, _, _, _)
SplitFrom(s, i, cur, acc) ==
    IF i > Len(s)
    THEN IF cur = <<>> THEN acc ELSE Append(acc, cur)
    ELSE IF s[i] \in Whitespace
         THEN SplitFrom(s, i + 1, <<>>,
                        IF cur = <<>> THEN acc ELSE Append(acc, cur))
         ELSE SplitFrom(s, i + 1, Append(cur, s[i]), acc)

split(s) == SplitFrom(s, 1, <<>>, <<>>)

\* str.split(".") restricted to what strptime needs: the fields between dots
RECURSIVE FieldsFrom(_, _, _, _)
FieldsFrom(s, i, cur, acc) ==
    IF i > Len(s) THEN Append(acc, cur)
    ELSE IF s[i] = "."
         THEN FieldsFrom(s, i + 1, <<>>, Append(acc, cur))
         ELSE FieldsFrom(s, i + 1, Append(cur, s[i]), acc)

(***************************************************************************)
(* datetime.date.                                                          *)
(***************************************************************************)
IsLeap(y) == (y % 4 = 0 /\ y % 100 # 0) \/ y % 400 = 0

DaysInMonth(y, m) ==
    IF m = 2 THEN (IF IsLeap(y) THEN 29 ELSE 28)
    ELSE IF m \in {4, 6, 9, 11} THEN 30 ELSE 31

DaysBeforeYear(y) ==
    (y - 1) * 365 + ((y - 1) \div 4) - ((y - 1) \div 100) + ((y - 1) \div 400)

RECURSIVE DaysBeforeMonth(_, _)
DaysBeforeMonth(y, m) ==
    IF m = 1 THEN 0 ELSE DaysBeforeMonth(y, m - 1) + DaysInMonth(y, m - 1)

IsDate(y, m, d) ==
    /\ y \in 1..9999
    /\ m \in 1..12
    /\ d \in 1..DaysInMonth(y, m)

\* date.toordinal: 01.01.0001 is day 1
toordinal(d) == DaysBeforeYear(d[1]) + DaysBeforeMonth(d[1], d[2]) + d[3]

\* date.fromordinal
fromordinal(n) ==
    LET y == CHOOSE yy \in (n \div 366)..(n \div 365 + 1) :
                 DaysBeforeYear(yy) < n /\ n <= DaysBeforeYear(yy + 1)
        r == n - DaysBeforeYear(y)
        m == CHOOSE mm \in 1..12 :
                 /\ DaysBeforeMonth(y, mm) < r
                 /\ r <= DaysBeforeMonth(y, mm) + DaysInMonth(y, mm)
    IN  <<y, m, r - DaysBeforeMonth(y, m)>>

\* date.weekday: Monday is 0, Sunday is 6
weekday(d) == (toordinal(d) + 6) % 7

\* date + timedelta(days = n)
PlusDays(d, n) == fromordinal(toordinal(d) + n)

\* d1 < d2 and d1 <= d2 on dates
DateLt(d1, d2) == toordinal(d1) < toordinal(d2)
DateLe(d1, d2) == toordinal(d1) <= toordinal(d2)

TwoDigits(n) == <<Digits[((n \div 10) % 10) + 1], Digits[(n % 10) + 1]>>

FourDigits(n) == TwoDigits(n \div 100) \o TwoDigits(n % 100)

\* date.strftime("%d.%m.%Y")
strftime(d) ==
    TwoDigits(d[3]) \o <<".">> \o TwoDigits(d[2]) \o <<".">> \o FourDigits(d[1])

\* datetime.strptime(value, "%d.%m.%Y").date(): [ok, date].  %d and %m take
\* one or two digits, %Y exactly four; the date must exist.
strptime(value) ==
    LET f == FieldsFrom(value, 1, <<>>, <<>>)
        shaped == /\ Len(f) = 3
                  /\ isdigit(f[1]) /\ Len(f[1]) \in 1..2
                  /\ isdigit(f[2]) /\ Len(f[2]) \in 1..2
                  /\ isdigit(f[3]) /\ Len(f[3]) = 4
        parsed == << IntOf(f[3]), IntOf(f[2]), IntOf(f[1]) >>
    IN  IF shaped /\ IsDate(parsed[1], parsed[2], parsed[3])
        THEN [ok |-> TRUE, date |-> parsed]
        ELSE [ok |-> FALSE, date |-> None]

(***************************************************************************)
(* Results of calls that may raise: exc is the Python exception ("" when   *)
(* the call returned), kind says what the raise site reports, val is the   *)
(* value returned, or the state the call had reached when it raised.       *)
(***************************************************************************)
Ok(v) == [exc |-> "", kind |-> "none", val |-> v]

Raise(e, k, v) == [exc |-> e, kind |-> k, val |-> v]

(***************************************************************************)
(* Field, Name, Phone, Birthday.                                           *)
(***************************************************************************)
\* Name.__init__: "if not name: raise ValueError"
Name(name) ==
    IF name = <<>> THEN Raise("ValueError", "validation", None) ELSE Ok(name)

\* Phone.__validate
PhoneValid(phone_number) == ~(~isdigit(phone_number) \/ Len(phone_number) # 10)

\* Phone.__init__
Phone(phone_number) ==
    IF PhoneValid(phone_number) THEN Ok(phone_number)
    ELSE Raise("ValueError", "validation", None)

\* Birthday.__init__: the stored value is the parsed date
Birthday(value) ==
    LET p == strptime(value)
    IN  IF p.ok THEN Ok(p.date) ELSE Raise("ValueError", "validation", None)

(***************************************************************************)
(* Record: [name, phones, birthday]; phones holds the Phone values in list *)
(* order, birthday the stored date or None.                                *)
(***************************************************************************)
\* Record.__init__
Record(name) ==
    LET n == Name(name)
    IN  IF n.exc # "" THEN n
        ELSE Ok([name |-> n.val, phones |-> <<>>, birthday |-> None])

\* Record.add_birthday
Record_add_birthday(rec, birthday) ==
    LET b == Birthday(birthday)
    IN  IF b.exc # "" THEN Raise(b.exc, b.kind, rec)
        ELSE Ok([rec EXCEPT !.birthday = b.val])

\* Record.birthday (the property)
Record_birthday(rec) == rec.birthday

\* Record.add_phone
Record_add_phone(rec, phone_number) ==
    LET p == Phone(phone_number)
    IN  IF p.exc # "" THEN Raise(p.exc, p.kind, rec)
        ELSE Ok([rec EXCEPT !.phones = Append(@, p.val)])

\* Record.remove_phone
Record_remove_phone(rec, phone_number) ==
    [rec EXCEPT !.phones = SelectSeq(@, LAMBDA v : v # phone_number)]

\* Record.edit_phone
Record_edit_phone(rec, old_phone_number, new_phone_number) ==
    [rec EXCEPT !.phones =
        [i \in 1..Len(@) |->
            IF @[i] = old_phone_number THEN new_phone_number ELSE @[i]]]

\* Record.find_phone
Record_find_phone(rec, phone_number) ==
    IF \E i \in 1..Len(rec.phones) : rec.phones[i] = phone_number
    THEN rec.phones[CHOOSE i \in 1..Len(rec.phones) :
                        rec.phones[i] = phone_number]
    ELSE None

(***************************************************************************)
(* AddressBook: the records of self.data in key order.                     *)
(***************************************************************************)
\* position of a key in self.data, 0 when absent
KeyIndex(book, name) ==
    IF \E i \in 1..Len(book) : book[i].name = name
    THEN CHOOSE i \in 1..Len(book) : book[i].name = name
    ELSE 0

\* AddressBook.add_record: self.data[record.name.value] = record
AddressBook_add_record(book, record) ==
    IF KeyIndex(book, record.name) = 0 THEN Append(book, record)
    ELSE [book EXCEPT ![KeyIndex(book, record.name)] = record]

\* AddressBook.find: self.data.get(name)
AddressBook_find(book, name) ==
    IF KeyIndex(book, name) = 0 THEN None ELSE book[KeyIndex(book, name)]

\* AddressBook.delete: self.data.pop(name, None)
AddressBook_delete(book, name) == SelectSeq(book, LAMBDA r : r.name # name)

\* date.replace(year = y): ValueError when the day does not exist in year y
replace_year(d, y) ==
    IF IsDate(y, d[2], d[3]) THEN Ok(<<y, d[2], d[3]>>)
    ELSE Raise("ValueError", "date", None)

\* the test of line 242
InNextWeek(current_date, user_birthday) ==
    /\ DateLt(current_date, user_birthday)
    /\ DateLe(user_birthday, PlusDays(current_date, 7))

\* lines 244-245 moving a weekend back to Friday instead
ShiftWeekend_ToFriday(user_birthday) ==
    IF weekday(user_birthday) >= 5
    THEN PlusDays(user_birthday, 4 - weekday(user_birthday))
    ELSE user_birthday

\* lines 244-245: a Saturday or Sunday moves on to Monday
ShiftWeekend(user_birthday) ==
    IF weekday(user_birthday) >= 5
    THEN PlusDays(user_birthday, 7 - weekday(user_birthday))
    ELSE user_birthday

\* the loop of AddressBook.get_upcoming_birthdays from key i on.  The code's
\* second key is spelled "congratulation_date:".
RECURSIVE UpcomingFrom(_, _, _, _)
UpcomingFrom(book, current_date, i, upcoming_birthdays) ==
    IF i > Len(book) THEN Ok(upcoming_birthdays)
    ELSE IF Record_birthday(book[i]) = None
    THEN UpcomingFrom(book, current_date, i + 1, upcoming_birthdays)
    ELSE LET r == replace_year(Record_birthday(book[i]), current_date[1])
         IN  IF r.exc # "" THEN Raise(r.exc, r.kind, upcoming_birthdays)
             ELSE IF InNextWeek(current_date, r.val)
             THEN UpcomingFrom(book, current_date, i + 1,
                     Append(upcoming_birthdays,
                            [name |-> book[i].name,
                             congratulation_date |->
                                 strftime(ShiftWeekend(r.val))]))
             ELSE UpcomingFrom(book, current_date, i + 1, upcoming_birthdays)

\* AddressBook.get_upcoming_birthdays, with current_date = today
get_upcoming_birthdays(book, current_date) ==
    UpcomingFrom(book, current_date, 1, <<>>)

(***************************************************************************)
(* parse_input, input_error and the command handlers.  A handler's result  *)
(* carries [contacts, ret]: the AddressBook as the handler left it (also   *)
(* when it raised) and the value it returned.  A returned value is         *)
(* [tag, val]: "str" a string, "fstr" an f-string's parts, "record" a      *)
(* Record, "date" a date or None, "list" the upcoming birthdays, "table"   *)
(* the rows show_all formats.                                              *)
(***************************************************************************)
Str(text) == [tag |-> "str", val |-> text]

ValueErrorText ==
    "Error: Command requires exactly 2 arguments (name and phone/birthday)."

KeyErrorText == "Error: No contact with this name was found in the dictation"

IndexErrorText == "Error: Command requires 1 argument (name)"

\* parse_input: raises ValueError when split() yields no token
parse_input(user_input) ==
    LET tokens == split(user_input)
    IN  IF tokens = <<>> THEN Raise("ValueError", "parse", None)
        ELSE Ok([command |-> lower(tokens[1]), args |-> Tail(tokens)])

\* input_error: the value inner returns for the result of func
input_error(res) ==
    IF res.exc = "" THEN res.val.ret
    ELSE IF res.exc = "ValueError" THEN Str(ValueErrorText)
    ELSE IF res.exc = "KeyError" THEN Str(KeyErrorText)
    ELSE Str(IndexErrorText)

\* contacts[name] = record, for a key already present
SetRecord(book, record) == [book EXCEPT ![KeyIndex(book, record.name)] = record]

\* line 305 without its lookup: "if phone"
ShouldAddPhone_NoLookup(record, phone) == phone # <<>>

\* line 305: "if phone and record.find_phone(phone) is None"
ShouldAddPhone(record, phone) ==
    phone # <<>> /\ Record_find_phone(record, phone) = None

\* add_contact, undecorated
add_contact(args, book) ==
    IF Len(args) < 2
    THEN Raise("ValueError", "argcount", [contacts |-> book, ret |-> None])
    ELSE
    LET name == args[1]
        phone == args[2]
        found == AddressBook_find(book, name)
        made == Record(name)
    IN  IF found = None /\ made.exc # ""
        THEN Raise(made.exc, made.kind, [contacts |-> book, ret |-> None])
        ELSE
        LET record == IF found = None THEN made.val ELSE found
            book1 == IF found = None THEN AddressBook_add_record(book, record)
                     ELSE book
            message == IF found = None THEN "Contact added."
                       ELSE "Contact updated."
            added == Record_add_phone(record, phone)
        IN  IF ~ShouldAddPhone(record, phone)
            THEN Ok([contacts |-> book1, ret |-> Str(message)])
            ELSE IF added.exc # ""
            THEN Raise(added.exc, added.kind,
                       [contacts |-> book1, ret |-> None])
            ELSE Ok([contacts |-> SetRecord(book1, added.val),
                     ret |-> Str(message)])

\* get_number, undecorated
get_number(args, book) ==
    IF Len(args) < 1
    THEN Raise("IndexError", "argcount", [contacts |-> book, ret |-> None])
    ELSE IF KeyIndex(book, args[1]) = 0
    THEN Raise("KeyError", "notfound", [contacts |-> book, ret |-> None])
    ELSE Ok([contacts |-> book,
             ret |-> [tag |-> "record", val |-> book[KeyIndex(book, args[1])]]])

\* change_contact, undecorated
change_contact(args, book) ==
    IF Len(args) # 3
    THEN Raise("ValueError", "argcount", [contacts |-> book, ret |-> None])
    ELSE IF KeyIndex(book, args[1]) = 0
    THEN Raise("KeyError", "notfound", [contacts |-> book, ret |-> None])
    ELSE Ok([contacts |->
                 SetRecord(book,
                     Record_edit_phone(book[KeyIndex(book, args[1])],
                                       args[2], args[3])),
             ret |-> Str("Contact updated")])

\* the rows show_all prints: one <<name, phone>> per phone, in order
RECURSIVE Rows(_)
Rows(book) ==
    IF book = <<>> THEN <<>>
    ELSE [i \in 1..Len(Head(book).phones) |->
             <<Head(book).name, Head(book).phones[i]>>] \o Rows(Tail(book))

\* show_all, undecorated
show_all(book) ==
    IF book = <<>>
    THEN Ok([contacts |-> book, ret |-> Str("No contacts found.")])
    ELSE Ok([contacts |-> book, ret |-> [tag |-> "table", val |-> Rows(book)]])

\* add_birthday, undecorated
add_birthday(args, book) ==
    IF Len(args) # 2
    THEN Raise("ValueError", "argcount", [contacts |-> book, ret |-> None])
    ELSE IF KeyIndex(book, args[1]) = 0
    THEN Raise("KeyError", "notfound", [contacts |-> book, ret |-> None])
    ELSE LET r == Record_add_birthday(book[KeyIndex(book, args[1])], args[2])
         IN  IF r.exc # ""
             THEN Raise(r.exc, r.kind, [contacts |-> book, ret |-> None])
             ELSE Ok([contacts |-> SetRecord(book, r.val),
                      ret |-> [tag |-> "fstr",
                               val |-> <<"Birthday has been added for ",
                                         args[1]>>]])

\* show_birthday, undecorated
show_birthday(args, book) ==
    IF Len(args) < 1
    THEN Raise("IndexError", "argcount", [contacts |-> book, ret |-> None])
    ELSE IF KeyIndex(book, args[1]) = 0
    THEN Raise("KeyError", "notfound", [contacts |-> book, ret |-> None])
    ELSE Ok([contacts |-> book,
             ret |-> [tag |-> "date",
                      val |-> Record_birthday(book[KeyIndex(book, args[1])])]])

\* birthdays, undecorated
birthdays(book, current_date) ==
    LET r == get_upcoming_birthdays(book, current_date)
    IN  IF r.exc # ""
        THEN Raise(r.exc, r.kind, [contacts |-> book, ret |-> None])
        ELSE Ok([contacts |-> book, ret |-> [tag |-> "list", val |-> r.val]])

(***************************************************************************)
(* The snapshot.  pickle.dump writes one entry per record, in key order;   *)
(* pickle.load rebuilds the AddressBook from the entries.                  *)
(***************************************************************************)
Pickle(book) ==
    [i \in 1..Len(book) |-> <<book[i].name, book[i].phones, book[i].birthday>>]

Unpickle(bytes) ==
    [i \in 1..Len(bytes) |->
        [name |-> bytes[i][1], phones |-> bytes[i][2], birthday |-> bytes[i][3]]]

\* save_data
save_data(book) == [exists |-> TRUE, bytes |-> Pickle(book)]

\* load_data: FileNotFoundError gives an empty AddressBook
load_data(f) == IF f.exists THEN Unpickle(f.bytes) ELSE <<>>

(***************************************************************************)
(* The inputs tried: names, phone numbers (two valid, one of five digits,  *)
(* one with letters), birthdays (29 February among them, and a day that    *)
(* does not exist) and the lines typed at the prompt.                      *)
(***************************************************************************)
Repeat(c, n) == [i \in 1..n |-> c]

Ann == <<"A", "n", "n">>
Bob == <<"B", "o", "b">>
Names == {Ann, Bob}

PhoneA == Repeat("1", 10)
PhoneB == Repeat("2", 10)
PhoneShort == Repeat("1", 5)
PhoneAlpha == Repeat("1", 5) \o <<"a", "b", "c", "d", "e">>
ValidPhones == {PhoneA, PhoneB}
PhoneInputs == {PhoneA, PhoneB, PhoneShort}

LeapDayText == strftime(<<2000, 2, 29>>)
MarchText == strftime(<<1990, 3, 1>>)
NoSuchDayText == strftime(<<2020, 2, 31>>)
BirthdayInputs == {LeapDayText, MarchText, NoSuchDayText}

\* values datetime.today().date() takes in the runs of main
Todays == {<<2023, 2, 25>>, <<2024, 2, 25>>}

W_hello == <<"h", "e", "l", "l", "o">>
W_add == <<"a", "d", "d">>
W_phone == <<"p", "h", "o", "n", "e">>
W_change == <<"c", "h", "a", "n", "g", "e">>
W_all == <<"a", "l", "l">>
W_add_birthday == W_add \o <<"-", "b", "i", "r", "t", "h", "d", "a", "y">>
W_show_birthday ==
    <<"s", "h", "o", "w", "-", "b", "i", "r", "t", "h", "d", "a", "y">>
W_birthdays == <<"b", "i", "r", "t", "h", "d", "a", "y", "s">>
W_close == <<"c", "l", "o", "s", "e">>
W_exit == <<"e", "x", "i", "t">>
W_unknown == <<"f", "o", "o">>

RECURSIVE Join(_)
Join(tokens) ==
    IF Len(tokens) = 1 THEN tokens[1]
    ELSE tokens[1] \o <<" ">> \o Join(Tail(tokens))

TokenLists ==
    {<<W_hello>>, <<W_all>>, <<W_all, Ann>>, <<W_birthdays>>, <<W_unknown>>,
     <<W_exit>>, <<W_close>>, <<<<"E", "x", "i", "t">>>>,
     <<W_add>>, <<W_add, Ann>>, <<W_add, Ann, PhoneA, PhoneB>>,
     <<W_phone>>, <<W_change, Ann, PhoneA>>,
     <<W_change, Ann, PhoneA, PhoneAlpha>>,
     <<W_change, Ann, PhoneA, PhoneB, PhoneB>>,
     <<W_add_birthday, Ann>>, <<W_add_birthday, Ann, MarchText, MarchText>>,
     <<W_show_birthday>>}
    \cup {<<W_add, n, p>> : n \in Names, p \in PhoneInputs}
    \cup {<<W_phone, n>> : n \in Names}
    \cup {<<W_change, n, o, p>> : n \in Names, o \in {PhoneA}, p \in PhoneInputs}
    \cup {<<W_add_birthday, n, d>> : n \in Names, d \in BirthdayInputs}
    \cup {<<W_show_birthday, n>> : n \in Names}

\* the lines input() returns: the token lists typed with single blanks, an
\* empty line, a line of blanks, and a line with blanks around its tokens
Lines ==
    {Join(t) : t \in TokenLists}
    \cup {<<>>, <<" ", "\t">>, <<" ">> \o Join(<<W_add, Bob, PhoneB>>) \o <<" ">>}

(***************************************************************************)
(* main: load_data, the loop, save_data.                                   *)
(***************************************************************************)
NoCall == [fn |-> "", args |-> <<>>]
NoOutput == [tag |-> "", val |-> None]

Init ==
    /\ pc = "boot"
    /\ contacts = <<>>
    /\ file = [exists |-> FALSE, bytes |-> <<>>]
    /\ call = NoCall
    /\ output = NoOutput
    /\ failure = "none"
    /\ before = <<>>
    /\ today = None
    /\ session = 0
    /\ started = <<>>
    /\ prevEnd = <<>>
    /\ cmds = 0

\* no Record of the book holds more than MaxPhones phones
WithinBounds(book) == \A i \in 1..Len(book) : Len(book[i].phones) <= MaxPhones

\* main starts (again): contacts = load_data()
Start ==
    /\ pc \in {"boot", "done", "crashed"}
    /\ session < MaxSessions
    /\ pc' = "loop"
    /\ contacts' = load_data(file)
    /\ started' = load_data(file)
    /\ session' = session + 1
    /\ call' = NoCall
    /\ output' = NoOutput
    /\ failure' = "none"
    /\ before' = load_data(file)
    /\ today' = None
    /\ UNCHANGED <<file, prevEnd, cmds>>

\* the if / elif chain of main for a command other than close and exit
Dispatch(command, args, book, current_date) ==
    IF command = W_hello
    THEN Ok([contacts |-> book, ret |-> Str("How can I help you?")])
    ELSE IF command = W_add THEN add_contact(args, book)
    ELSE IF command = W_phone THEN get_number(args, book)
    ELSE IF command = W_change THEN change_contact(args, book)
    ELSE IF command = W_all THEN show_all(book)
    ELSE IF command = W_add_birthday THEN add_birthday(args, book)
    ELSE IF command = W_show_birthday THEN show_birthday(args, book)
    ELSE IF command = W_birthdays THEN birthdays(book, current_date)
    ELSE Ok([contacts |-> book, ret |-> Str("Invalid command.")])

\* each line with what parse_input makes of it
Parsed == {[line |-> l, res |-> parse_input(l)] : l \in Lines}

\* one iteration of the loop whose line parse_input cannot unpack: the
\* ValueError leaves main, and save_data is not reached
LoopRaise(in) ==
    /\ pc = "loop"
    /\ in.res.exc # ""
    /\ pc' = "crashed"
    /\ call' = [fn |-> "main", args |-> <<in.line>>]
    /\ output' = [tag |-> "exception", val |-> in.res.exc]
    /\ failure' = in.res.kind
    /\ before' = contacts
    /\ prevEnd' = contacts
    /\ today' = None
    /\ UNCHANGED <<contacts, file, session, started, cmds>>

\* one iteration of the loop reading close or exit: break, then save_data
LoopExit(in) ==
    /\ pc = "loop"
    /\ in.res.exc = ""
    /\ in.res.val.command \in {W_close, W_exit}
    /\ pc' = "done"
    /\ call' = [fn |-> "main", args |-> <<in.line>>]
    /\ output' = Str("Good bye!")
    /\ failure' = "none"
    /\ before' = contacts
    /\ prevEnd' = contacts
    /\ file' = save_data(contacts)
    /\ today' = None
    /\ UNCHANGED <<contacts, session, started, cmds>>

\* one iteration of the loop reading any other command; current_date is
\* what datetime.today().date() returns when the command is birthdays
LoopCommand(in, current_date) ==
    /\ pc = "loop"
    /\ cmds < MaxCmds
    /\ in.res.exc = ""
    /\ in.res.val.command \notin {W_close, W_exit}
    /\ (in.res.val.command # W_birthdays => current_date = None)
    /\ (in.res.val.command = W_birthdays => current_date # None)
    /\ LET res == Dispatch(in.res.val.command, in.res.val.args, contacts,
                           current_date)
       IN  /\ WithinBounds(res.val.contacts)
           /\ contacts' = res.val.contacts
           /\ output' = input_error(res)
           /\ failure' = res.kind
    /\ today' = current_date
    /\ call' = [fn |-> "main", args |-> <<in.line>>]
    /\ before' = contacts
    /\ cmds' = cmds + 1
    /\ UNCHANGED <<pc, file, session, started, prevEnd>>

Next ==
    \/ Start
    \/ \E in \in Parsed : LoopRaise(in)
    \/ \E in \in Parsed : LoopExit(in)
    \/ \E in \in Parsed, current_date \in Todays \cup {None} :
           LoopCommand(in, current_date)

Spec == Init /\ [][Next]_vars

(***************************************************************************)
(* Claims about the runs of main (Spec).                                   *)
(***************************************************************************)
\* the command of the line the last iteration read
LastCommand == parse_input(call.args[1]).val.command

ErrorTexts == {ValueErrorText, KeyErrorText, IndexErrorText}

ReturnedError == output.tag = "str" /\ output.val \in ErrorTexts

\* C1: every phone stored in every Record of the AddressBook is a string of
\* exactly 10 decimal digits, after any sequence of commands; edit_phone
\* never stores a new value that is not 10 digits.
C1_StoredPhonesAreTenDigits ==
    \A i \in 1..Len(contacts) : \A j \in 1..Len(contacts[i].phones) :
        /\ Len(contacts[i].phones[j]) = 10
        /\ \A k \in 1..Len(contacts[i].phones[j]) :
               IsDigitChar(contacts[i].phones[j][k])

\* C4: whatever the input lines, main leaves its loop only by reading close
\* or exit: no line makes an error propagate out of the loop.
C4_LoopEndsOnlyOnCloseOrExit ==
    /\ pc # "crashed"
    /\ pc = "done" => LastCommand \in {W_close, W_exit}

\* what the handlers return for a wrong number of arguments and for an
\* absent name, each on inputs that can fail in no other way
ArgCountOutputs ==
    {input_error(add_contact(<<>>, <<>>)),
     input_error(get_number(<<>>, <<>>)),
     input_error(change_contact(<<>>, <<>>)),
     input_error(add_birthday(<<>>, <<>>)),
     input_error(show_birthday(<<>>, <<>>))}

NotFoundOutputs ==
    {input_error(get_number(<<Ann>>, <<>>)),
     input_error(change_contact(<<Ann, PhoneA, PhoneB>>, <<>>)),
     input_error(add_birthday(<<Ann, MarchText>>, <<>>)),
     input_error(show_birthday(<<Ann>>, <<>>))}

\* C5: a failing command returns the message of its own error kind: a
\* validation failure never returns the message of a wrong argument count or
\* of an absent name, an absent name returns the not-found message, a wrong
\* argument count returns an argument-count message, and the kinds share no
\* message.
C5_EachFailureKindHasItsOwnMessage ==
    /\ ArgCountOutputs \cap NotFoundOutputs = {}
    /\ failure = "validation" =>
           /\ ReturnedError
           /\ output \notin ArgCountOutputs \cup NotFoundOutputs
    /\ failure = "notfound" => output \in NotFoundOutputs
    /\ failure = "argcount" => output \in ArgCountOutputs

\* C7: every run of main after the first starts with the AddressBook the
\* previous run held when it ended, so no mutation of a run is missing from
\* the next.
C7_RunStartsWherePreviousEnded ==
    (pc = "loop" /\ session >= 2) => started = prevEnd

\* C8: the birthdays command returns the list of upcoming birthdays and
\* never an error, whatever the AddressBook and today (a 29 February
\* birthday in a non-leap year included).
C8_BirthdaysNeverReturnsError ==
    (call.fn = "main" /\ pc = "loop" /\ LastCommand = W_birthdays) =>
        output.tag = "list"

\* C9: a command that returns an error message leaves the AddressBook as it
\* was before the command: the names, each phone list and each birthday.
C9_ErrorLeavesBookUnchanged ==
    (call.fn = "main" /\ ReturnedError) => contacts = before

\* C10: no Record holds two phone entries with the same value, after any
\* sequence of add and change commands.
C10_NoDuplicatePhones ==
    \A i \in 1..Len(contacts) : \A j, k \in 1..Len(contacts[i].phones) :
        j # k => contacts[i].phones[j] # contacts[i].phones[k]

(***************************************************************************)
(* The module used as a library (SpecApi): Record and AddressBook methods  *)
(* and the add and change handlers called directly on one AddressBook.     *)
(***************************************************************************)
InitApi ==
    /\ pc = "api"
    /\ contacts = <<>>
    /\ file = [exists |-> FALSE, bytes |-> <<>>]
    /\ call = NoCall
    /\ output = NoOutput
    /\ failure = "none"
    /\ before = <<>>
    /\ today = None
    /\ session = 0
    /\ started = <<>>
    /\ prevEnd = <<>>
    /\ cmds = 0

ApiFrame == UNCHANGED <<pc, file, today, session, started, prevEnd, cmds>>

\* a call of method fn on the Record stored under name, leaving result
ApiOnRecord(fn, name, args, result) ==
    /\ KeyIndex(contacts, name) # 0
    /\ WithinBounds(SetRecord(contacts, result.val))
    /\ contacts' = SetRecord(contacts, result.val)
    /\ call' = [fn |-> fn, args |-> <<name>> \o args]
    /\ output' = NoOutput
    /\ failure' = result.kind
    /\ before' = contacts
    /\ ApiFrame

\* book.add_record(Record(name))
ApiAddRecord(name) ==
    /\ Record(name).exc = ""
    /\ contacts' = AddressBook_add_record(contacts, Record(name).val)
    /\ call' = [fn |-> "AddressBook.add_record", args |-> <<name>>]
    /\ output' = NoOutput
    /\ failure' = "none"
    /\ before' = contacts
    /\ ApiFrame

\* book.delete(name)
ApiDelete(name) ==
    /\ contacts' = AddressBook_delete(contacts, name)
    /\ call' = [fn |-> "AddressBook.delete", args |-> <<name>>]
    /\ output' = NoOutput
    /\ failure' = "none"
    /\ before' = contacts
    /\ ApiFrame

\* book.find(name).add_phone(phone)
ApiAddPhone(name, phone) ==
    /\ KeyIndex(contacts, name) # 0
    /\ ApiOnRecord("Record.add_phone", name, <<phone>>,
                   Record_add_phone(AddressBook_find(contacts, name), phone))

\* book.find(name).remove_phone(phone)
ApiRemovePhone(name, phone) ==
    /\ KeyIndex(contacts, name) # 0
    /\ ApiOnRecord("Record.remove_phone", name, <<phone>>,
                   Ok(Record_remove_phone(AddressBook_find(contacts, name),
                                          phone)))

\* book.find(name).edit_phone(old, new)
ApiEditPhone(name, old, new) ==
    /\ KeyIndex(contacts, name) # 0
    /\ ApiOnRecord("Record.edit_phone", name, <<old, new>>,
                   Ok(Record_edit_phone(AddressBook_find(contacts, name),
                                        old, new)))

\* a decorated handler called with args on the book, leaving res
ApiHandler(fn, args, res) ==
    /\ WithinBounds(res.val.contacts)
    /\ contacts' = res.val.contacts
    /\ call' = [fn |-> fn, args |-> args]
    /\ output' = input_error(res)
    /\ failure' = res.kind
    /\ before' = contacts
    /\ ApiFrame

\* add_contact(args, book)
ApiAddContact(args) == ApiHandler("add_contact", args, add_contact(args, contacts))

\* change_contact(args, book)
ApiChangeContact(args) ==
    ApiHandler("change_contact", args, change_contact(args, contacts))

NextApi ==
    \/ \E name \in Names : ApiAddRecord(name)
    \/ \E name \in Names : ApiDelete(name)
    \/ \E name \in Names, phone \in PhoneInputs : ApiAddPhone(name, phone)
    \/ \E name \in Names, phone \in PhoneInputs : ApiRemovePhone(name, phone)
    \/ \E name \in Names, old \in ValidPhones, new \in ValidPhones :
           ApiEditPhone(name, old, new)
    \/ \E name \in Names, phone \in PhoneInputs :
           ApiAddContact(<<name, phone>>)
    \/ \E name \in Names, old \in ValidPhones, new \in ValidPhones :
           ApiChangeContact(<<name, old, new>>)

SpecApi == InitApi /\ [][NextApi]_vars

\* number of entries of a phone list with the value phone
Occurrences(phones, phone) ==
    Cardinality({i \in 1..Len(phones) : phones[i] = phone})

\* the phone list stored under name in book, empty when name is absent
PhonesOf(book, name) ==
    IF KeyIndex(book, name) = 0 THEN <<>>
    ELSE book[KeyIndex(book, name)].phones

\* the last call was fn with a valid phone for a contact
AddedValidPhone(fn) ==
    /\ call.fn = fn
    /\ Len(call.args) >= 2
    /\ PhoneValid(call.args[2])

QueryStarts == {<<2024, 6, 10>>, <<2024, 12, 27>>, <<2023, 2, 25>>, <<2024, 2, 25>>}

QueryTodays == {PlusDays(t, k) : t \in QueryStarts, k \in 0..(MaxTodays - 1)}

\* the text of a birthday, born in 2000, whose day and month fall a days
\* after current_date
BirthdayAhead(current_date, a) ==
    LET d == PlusDays(current_date, a) IN strftime(<<2000, d[2], d[3]>>)

QueryBirthdays(current_date) ==
    {BirthdayAhead(current_date, a) : a \in (0 - 1)..MaxAhead} \cup {LeapDayText}

InitQuery ==
    /\ pc = "query"
    /\ contacts = <<>>
    /\ file = [exists |-> FALSE, bytes |-> <<>>]
    /\ call = NoCall
    /\ output = NoOutput
    /\ failure = "none"
    /\ before = <<>>
    /\ today \in QueryTodays
    /\ session = 0
    /\ started = <<>>
    /\ prevEnd = <<>>
    /\ cmds = 0

QueryFrame ==
    UNCHANGED <<pc, file, failure, before, today, session, started, prevEnd, cmds>>

\* book.add_record(Record(name)) for a name not yet in the book
QueryAddRecord(name) ==
    /\ KeyIndex(contacts, name) = 0
    /\ contacts' = AddressBook_add_record(contacts, Record(name).val)
    /\ call' = [fn |-> "AddressBook.add_record", args |-> <<name>>]
    /\ output' = NoOutput
    /\ QueryFrame

\* book.find(name).add_birthday(text)
QueryAddBirthday(name, text) ==
    /\ KeyIndex(contacts, name) # 0
    /\ contacts' =
           SetRecord(contacts,
               Record_add_birthday(AddressBook_find(contacts, name), text).val)
    /\ call' = [fn |-> "Record.add_birthday", args |-> <<name, text>>]
    /\ output' = NoOutput
    /\ QueryFrame

\* book.get_upcoming_birthdays() on the day today
QueryUpcoming ==
    /\ contacts # <<>>
    /\ LET r == get_upcoming_birthdays(contacts, today)
       IN  output' = IF r.exc = "" THEN [tag |-> "list", val |-> r.val]
                     ELSE [tag |-> "exception", val |-> r.exc]
    /\ call' = [fn |-> "AddressBook.get_upcoming_birthdays", args |-> <<>>]
    /\ UNCHANGED contacts
    /\ QueryFrame

NextQuery ==
    \/ \E name \in Names : QueryAddRecord(name)
    \/ \E name \in Names : \E text \in QueryBirthdays(today) :
           QueryAddBirthday(name, text)
    \/ QueryUpcoming

SpecQuery == InitQuery /\ [][NextQuery]_vars

\* the query has returned its list for the book as it is
Queried == call.fn = "AddressBook.get_upcoming_birthdays" /\ output.tag = "list"

\* the list has an entry for the contact name
Listed(name) == \E e \in 1..Len(output.val) : output.val[e].name = name

\* the birthday b has its day and month d days after current_date
FallsAhead(current_date, b, d) ==
    /\ PlusDays(current_date, d)[2] = b[2]
    /\ PlusDays(current_date, d)[3] = b[3]

\* C2: for every today and every contact with a stored birthday, the contact
\* is listed if and only if the birthday's day and month fall d days after
\* today with 1 <= d <= 7 (the last week of December included).
C2_ListedIffWithinSevenDays ==
    Queried =>
        \A i \in 1..Len(contacts) :
            contacts[i].birthday # None =>
                (Listed(contacts[i].name)
                    <=> \E d \in 1..7 : FallsAhead(today, contacts[i].birthday, d))

\* the comparison date of the record: its birthday in the year of today
ComparisonDate(rec) == <<today[1], rec.birthday[2], rec.birthday[3]>>

\* the first Monday after the date d
NextMonday(d) == PlusDays(d, CHOOSE n \in 1..7 : weekday(PlusDays(d, n)) = 0)

\* C3: every listed contact's congratulation date is its comparison date
\* when that is a Monday to Friday and the first Monday after it when it is
\* a Saturday or Sunday; it is never a Saturday or Sunday and never earlier
\* than the comparison date.
C3_WeekendMovesToMonday ==
    Queried =>
        \A e \in 1..Len(output.val) :
            LET rec == AddressBook_find(contacts, output.val[e].name)
                cmp == ComparisonDate(rec)
                got == strptime(output.val[e].congratulation_date)
            IN  /\ weekday(cmp) \in 0..4 =>
                       output.val[e].congratulation_date = strftime(cmp)
                /\ weekday(cmp) \in 5..6 =>
                       output.val[e].congratulation_date = strftime(NextMonday(cmp))
                /\ got.ok
                /\ weekday(got.date) \notin {5, 6}
                /\ DateLe(cmp, got.date)

\* C3 witness: a listed contact whose comparison date is a Saturday or a
\* Sunday is congratulated on the following Monday
C3_Witness ==
    /\ Queried
    /\ \E e \in 1..Len(output.val) :
           LET cmp == ComparisonDate(AddressBook_find(contacts, output.val[e].name))
           IN  /\ weekday(cmp) >= 5
               /\ weekday(strptime(output.val[e].congratulation_date).date) = 0
               /\ DateLt(cmp, strptime(output.val[e].congratulation_date).date)

====
